---- MODULE Spec2Model ----
(***************************************************************************)
(* A model of the zip-parser crate (src/zip-parser/src/lib.rs, util.rs)    *)
(* and of the unzip driver (src/src/main.rs).                              *)
(*                                                                         *)
(* The input is a byte buffer.  Every structure is decoded from the bytes  *)
(* with the layouts and in the order the Rust code uses.  A slice &[u8]    *)
(* is a pair [lo, hi) of offsets into the one backing buffer.  Integers    *)
(* wider than 16 bits are kept as little-endian sequences of 16-bit limbs  *)
(* (no trailing zero limb), so that u32 and u64 values keep their width.   *)
(***************************************************************************)
EXTENDS Integers, Sequences, FiniteSets, TLC

(* ------------------------------ bounds -------------------------------- *)

\* Most entries an input archive is generated with.
MaxEntries == 2
\* Most calls of next() made through the library interface in one run.
MaxNext == 4
\* Most bytes a DEFLATE/Zstandard decompressor is let produce for an entry.
MaxProduce == 3
\* Worker threads of the rayon pool that runs the par_bridge.
NumWorkers == 2
\* Bytes the read_to_end loop asks for per read call.
ReadChunk == 2
\* How far around the window start of find_sig_offset the inputs are placed.
WindowSlack == 5

(* --------------------------- program constants ------------------------ *)

STORE == 0
DEFLATE == 8
ZSTD == 93

MAX_BACK_OFFSET == 1024 * 128
SIZE_OF_FIXED_FIELDS == 44
LOCATOR_LENGTH == 20

EOCDR_SIGNATURE == <<80, 75, 5, 6>>
ZIP64_EOCDR_SIGNATURE == <<80, 75, 6, 6>>
ZIP64_EOCDL_SIGNATURE == <<80, 75, 6, 7>>
CFH_SIGNATURE == <<80, 75, 1, 2>>
LFH_SIGNATURE == <<80, 75, 3, 4>>

(* ------------------------- wide unsigned integers --------------------- *)

Limb == 256 * 256

Min2(a, b) == IF a <= b THEN a ELSE b
Max2(a, b) == IF a >= b THEN a ELSE b

RECURSIVE BigNorm(_)
\* Drop the trailing (most significant) zero limbs.
BigNorm(w) ==
    IF Len(w) > 0 /\ w[Len(w)] = 0 THEN BigNorm(SubSeq(w, 1, Len(w) - 1)) ELSE w

\* A wide integer that is small enough to be used as a plain integer.
BigFits(w) == Len(w) <= 2 /\ (Len(w) = 2 => w[2] < 32768)

BigToInt(w) ==
    IF Len(w) = 0 THEN 0
    ELSE IF Len(w) = 1 THEN w[1]
    ELSE w[1] + Limb * w[2]

BigFromInt(n) == BigNorm(<<n % Limb, n \div Limb>>)

\* Number of bits of the narrowest of u16/u32/u48/u64 that holds w.
BigBits(w) == 16 * Len(w)

\* w > n for a plain n >= 0
BigGtInt(w, n) == ~BigFits(w) \/ BigToInt(w) > n

RECURSIVE BigBorrow(_, _)
\* w - k limb by limb, for 0 <= k < Limb and w >= k.
BigBorrow(w, k) ==
    IF k = 0 THEN w
    ELSE IF w[1] >= k THEN <<w[1] - k>> \o Tail(w)
    ELSE <<w[1] + Limb - k>> \o BigBorrow(Tail(w), 1)

None == [some |-> FALSE]
Some(v) == [some |-> TRUE, val |-> v]

\* uN::checked_sub(k), 0 <= k < Limb: None on underflow.
checked_sub(w, k) ==
    IF Len(w) = 0 \/ (Len(w) = 1 /\ w[1] < k) THEN
        IF k = 0 THEN Some(w) ELSE None
    ELSE Some(BigNorm(BigBorrow(w, k)))

(* ------------------------------- results ------------------------------ *)

Ok(v) == [ok |-> TRUE, val |-> v]
Err(e) == [ok |-> FALSE, err |-> e]

\* let x = v; F(x): v is evaluated once.
Bind(v, F(_)) == CHOOSE y \in { F(x) : x \in { v } } : TRUE

\* let x = r?; F(x): an Err is returned as it is.
Try(r, F(_)) == CHOOSE y \in { IF x.ok THEN F(x.val) ELSE x : x \in { r } } : TRUE

\* Option::ok_or
ok_or(opt, e) == IF opt.some THEN Ok(opt.val) ELSE Err(e)

\* Result::map_err(|_| e)
map_err(r, e) == IF r.ok THEN r ELSE Err(e)

\* usize::try_from of a u32/u64 on a platform with nbits-wide usize.
try_into_usize(w, nbits) == IF BigBits(w) <= nbits THEN Ok(w) ELSE Err("TryFromIntError")

(* ------------------------------- buffers ------------------------------ *)

\* The backing buffer: the bytes of body followed by post zero bytes.
BufLen(b) == Len(b.body) + b.post

\* The byte at 0-based offset i.
At(b, i) == IF i < Len(b.body) THEN b.body[i + 1] ELSE 0

Slice(lo, hi) == [lo |-> lo, hi |-> hi]
SliceLen(s) == s.hi - s.lo

Bytes(b, s) == [k \in 1..SliceLen(s) |-> At(b, s.lo + k - 1)]

\* get(offset..) with the offset clamped to the length of the buffer.
get_from_clamped(b, offset) ==
    IF BigGtInt(offset, BufLen(b)) THEN Some(Slice(BufLen(b), BufLen(b)))
    ELSE Some(Slice(BigToInt(offset), BufLen(b)))

\* slice::get(offset..) on the whole buffer, offset a usize.
get_from(b, offset) ==
    IF BigGtInt(offset, BufLen(b)) THEN None
    ELSE Some(Slice(BigToInt(offset), BufLen(b)))

(* ----------------------------- Byte Cursor ---------------------------- *)

\* util::take: (suffix, prefix) or Eof.
take(input, n) ==
    IF SliceLen(input) >= n
    THEN Ok([rest |-> Slice(input.lo + n, input.hi),
             out |-> Slice(input.lo, input.lo + n)])
    ELSE Err("Eof")

\* take with a usize count that may exceed every buffer of the model.
take_big(input, n) ==
    IF BigGtInt(n, SliceLen(input)) THEN Err("Eof") ELSE take(input, BigToInt(n))

u16_from_le_bytes(b, s) == At(b, s.lo) + 256 * At(b, s.lo + 1)

u32_from_le_bytes(b, s) ==
    BigNorm(<<u16_from_le_bytes(b, Slice(s.lo, s.lo + 2)),
              u16_from_le_bytes(b, Slice(s.lo + 2, s.lo + 4))>>)

u64_from_le_bytes(b, s) ==
    BigNorm(<<u16_from_le_bytes(b, Slice(s.lo, s.lo + 2)),
              u16_from_le_bytes(b, Slice(s.lo + 2, s.lo + 4)),
              u16_from_le_bytes(b, Slice(s.lo + 4, s.lo + 6)),
              u16_from_le_bytes(b, Slice(s.lo + 6, s.lo + 8))>>)

read_u16(b, input) ==
    Try(take(input, 2), LAMBDA t :
        Ok([rest |-> t.rest, out |-> u16_from_le_bytes(b, t.out)]))

read_u32(b, input) ==
    Try(take(input, 4), LAMBDA t :
        Ok([rest |-> t.rest, out |-> u32_from_le_bytes(b, t.out)]))

read_u64(b, input) ==
    Try(take(input, 8), LAMBDA t :
        Ok([rest |-> t.rest, out |-> u64_from_le_bytes(b, t.out)]))

\* A run of `let (buf, x) = read_uN(buf)?;` lines: widths is the sequence
\* of field widths in bytes (2, 4 or 8).  The result is the sequence of
\* the decoded values and the remaining slice, or the first read's Eof.
RECURSIVE read_fields(_, _, _, _)
read_fields(b, input, widths, acc) ==
    IF widths = <<>> THEN Ok([rest |-> input, out |-> acc])
    ELSE Try(IF Head(widths) = 2 THEN read_u16(b, input)
             ELSE IF Head(widths) = 4 THEN read_u32(b, input)
             ELSE read_u64(b, input),
             LAMBDA r : read_fields(b, r.rest, Tail(widths), Append(acc, r.out)))

\* A run of `let (buf, x) = take(buf, n)?;` lines.
RECURSIVE take_fields(_, _, _)
take_fields(input, lens, acc) ==
    IF lens = <<>> THEN Ok([rest |-> input, out |-> acc])
    ELSE Try(take(input, Head(lens)),
             LAMBDA t : take_fields(t.rest, Tail(lens), Append(acc, t.out)))

(* ---------------------------- Record Decoders ------------------------- *)

\* The offsets o, relative to hay.lo, at which needle occurs inside hay.
\* Only offsets whose first byte can equal needle[1] are enumerated: the
\* bytes past the body of the buffer are zero.
Occurrences(b, hay, needle) ==
    LET last == IF needle[1] # 0
                THEN Min2(hay.hi - Len(needle), Len(b.body) - 1)
                ELSE hay.hi - Len(needle)
    IN  { o \in 0..(last - hay.lo) :
            \A k \in 1..Len(needle) : At(b, hay.lo + o + k - 1) = needle[k] }

\* memchr::memmem::rfind: the offset of the last occurrence, or None.
rfind(b, hay, needle) ==
    Bind(Occurrences(b, hay, needle), LAMBDA occ :
        IF occ = {} THEN None
        ELSE Some(CHOOSE o \in occ : \A p \in occ : p <= o))

\* find_sig_offset returning the offset inside the searched window.
find_sig_offset_relative(b) ==
    LET search_offset == IF BufLen(b) >= MAX_BACK_OFFSET
                         THEN BufLen(b) - MAX_BACK_OFFSET ELSE 0
        foobar == Slice(search_offset, BufLen(b))
    IN  Try(ok_or(rfind(b, foobar, EOCDR_SIGNATURE), "BadEocdr"), LAMBDA offset :
            Ok(offset))

\* EocdRecord::find_sig_offset
find_sig_offset(b) ==
    LET search_offset == IF BufLen(b) >= MAX_BACK_OFFSET
                         THEN BufLen(b) - MAX_BACK_OFFSET ELSE 0
        foobar == Slice(search_offset, BufLen(b))
    IN  Try(ok_or(rfind(b, foobar, EOCDR_SIGNATURE), "BadEocdr"), LAMBDA offset :
            Ok(search_offset + offset))

\* EocdRecord::parse
EocdRecord_parse(b, input) ==
    Try(take(input, 4), LAMBDA sig :
    IF Bytes(b, sig.out) # EOCDR_SIGNATURE THEN Err("BadEocdr")
    ELSE
    Try(read_fields(b, sig.rest, <<2, 2, 2, 2, 4, 4, 2>>, <<>>), LAMBDA f :
    Try(take(f.rest, f.out[7]), LAMBDA comment :
        Ok([rest |-> comment.rest,
            out |-> [disk_nbr |-> f.out[1],
                     cd_start_disk |-> f.out[2],
                     disk_cd_entries |-> f.out[3],
                     cd_entries |-> f.out[4],
                     cd_size |-> f.out[5],
                     cd_offset |-> f.out[6],
                     comment |-> comment.out]]))))

\* EocdRecord::find: (offset, record)
EocdRecord_find(b) ==
    Try(find_sig_offset(b), LAMBDA offset :
    Try(EocdRecord_parse(b, Slice(offset, BufLen(b))), LAMBDA r :
        Ok([offset |-> offset, record |-> r.out])))

\* Zip64EocdRecord::parse with size - 44 computed modulo 2^64.
Zip64EocdRecord_parse_wrapping(b, input, nbits) ==
    Try(take(input, 4), LAMBDA sig :
    IF Bytes(b, sig.out) # ZIP64_EOCDR_SIGNATURE THEN Err("BadEocdr")
    ELSE
    Try(read_u64(b, sig.rest), LAMBDA size :
    Try(Bind(checked_sub(size.out, SIZE_OF_FIXED_FIELDS), LAMBDA d :
             IF d.some THEN Ok(d.val)
             ELSE Ok(<<Limb - (SIZE_OF_FIXED_FIELDS - BigToInt(size.out)),
                       Limb - 1, Limb - 1, Limb - 1>>)), LAMBDA sub :
    Try(map_err(try_into_usize(sub, nbits), "BadEocdr"), LAMBDA extra_data_size :
    Try(read_fields(b, size.rest, <<2, 2, 4, 4, 8, 8, 8, 8>>, <<>>), LAMBDA f :
    Try(take_big(f.rest, extra_data_size), LAMBDA x :
        Ok([rest |-> x.rest,
            out |-> [version_by |-> f.out[1],
                     version_needed |-> f.out[2],
                     disk_nbr |-> f.out[3],
                     cd_start_disk |-> f.out[4],
                     disk_cd_entries |-> f.out[5],
                     cd_entries |-> f.out[6],
                     cd_size |-> f.out[7],
                     cd_offset |-> f.out[8],
                     extra_data |-> x.out]])))))))

\* Zip64EocdRecord::parse on a platform with nbits-wide usize
Zip64EocdRecord_parse(b, input, nbits) ==
    Try(take(input, 4), LAMBDA sig :
    IF Bytes(b, sig.out) # ZIP64_EOCDR_SIGNATURE THEN Err("BadEocdr")
    ELSE
    Try(read_u64(b, sig.rest), LAMBDA size :
    Try(ok_or(checked_sub(size.out, SIZE_OF_FIXED_FIELDS), "BadEocdr"), LAMBDA sub :
    Try(map_err(try_into_usize(sub, nbits), "BadEocdr"), LAMBDA extra_data_size :
    Try(read_fields(b, size.rest, <<2, 2, 4, 4, 8, 8, 8, 8>>, <<>>), LAMBDA f :
    Try(take_big(f.rest, extra_data_size), LAMBDA x :
        Ok([rest |-> x.rest,
            out |-> [version_by |-> f.out[1],
                     version_needed |-> f.out[2],
                     disk_nbr |-> f.out[3],
                     cd_start_disk |-> f.out[4],
                     disk_cd_entries |-> f.out[5],
                     cd_entries |-> f.out[6],
                     cd_size |-> f.out[7],
                     cd_offset |-> f.out[8],
                     extra_data |-> x.out]])))))))

\* Zip64EocdLocator::parse
Zip64EocdLocator_parse(b, input) ==
    Try(take(input, 4), LAMBDA sig :
    IF Bytes(b, sig.out) # ZIP64_EOCDL_SIGNATURE THEN Err("BadZip64Eocdl")
    ELSE
    Try(read_fields(b, sig.rest, <<4, 8, 4>>, <<>>), LAMBDA f :
        Ok([rest |-> f.rest,
            out |-> [cd_start_disk |-> f.out[1],
                     offset |-> f.out[2],
                     num_disks |-> f.out[3]]])))

\* Zip64EocdLocator::find
Zip64EocdLocator_find(b, eocdr_offset) ==
    IF eocdr_offset < LOCATOR_LENGTH THEN Err("BadZip64Eocdl")
    ELSE Try(Zip64EocdLocator_parse(b, Slice(eocdr_offset - LOCATOR_LENGTH, eocdr_offset)),
             LAMBDA r : Ok(r.out))

\* CentralFileHeader::parse
CentralFileHeader_parse(b, input) ==
    Try(take(input, 4), LAMBDA sig :
    IF Bytes(b, sig.out) # CFH_SIGNATURE THEN Err("BadCfh")
    ELSE
    Try(read_fields(b, sig.rest,
                    <<2, 2, 2, 2, 2, 2, 4, 4, 4, 2, 2, 2, 2, 2, 4, 4>>, <<>>), LAMBDA f :
    Try(take_fields(f.rest, <<f.out[10], f.out[11], f.out[12]>>, <<>>), LAMBDA v :
        Ok([rest |-> v.rest,
            out |-> [made_by_ver |-> f.out[1],
                     extract_ver |-> f.out[2],
                     gp_flag |-> f.out[3],
                     method |-> f.out[4],
                     mod_time |-> f.out[5],
                     mod_date |-> f.out[6],
                     crc32 |-> f.out[7],
                     comp_size |-> f.out[8],
                     uncomp_size |-> f.out[9],
                     disk_nbr_start |-> f.out[13],
                     int_attrs |-> f.out[14],
                     ext_attrs |-> f.out[15],
                     lfh_offset |-> f.out[16],
                     name |-> v.out[1],
                     extra |-> v.out[2],
                     comment |-> v.out[3]]]))))

\* LocalFileHeader::parse
LocalFileHeader_parse(b, input) ==
    Try(take(input, 4), LAMBDA sig :
    IF Bytes(b, sig.out) # LFH_SIGNATURE THEN Err("BadLfh")
    ELSE
    Try(read_fields(b, sig.rest, <<2, 2, 2, 2, 2, 4, 4, 4, 2, 2>>, <<>>), LAMBDA f :
    Try(take_fields(f.rest, <<f.out[9], f.out[10]>>, <<>>), LAMBDA v :
        Ok([rest |-> v.rest,
            out |-> [extract_ver |-> f.out[1],
                     gp_flag |-> f.out[2],
                     method |-> f.out[3],
                     mod_time |-> f.out[4],
                     mod_date |-> f.out[5],
                     crc32 |-> f.out[6],
                     comp_size |-> f.out[7],
                     uncomp_size |-> f.out[8],
                     name |-> v.out[1],
                     extra |-> v.out[2]]]))))

(* ------------------------------ Archives ------------------------------ *)

\* The single-disk test of ZipArchive::parse and Zip64Archive::parse.
MultiDisk(eocdr) ==
    \/ eocdr.disk_nbr # 0
    \/ eocdr.cd_start_disk # 0
    \/ eocdr.disk_cd_entries # eocdr.cd_entries

\* The result of a parse, with the structures decoding was tried on.
Parsed(res, looked) == [res |-> res, looked |-> looked]

\* ZipArchive::parse
ZipArchive_parse(b) ==
    Bind(EocdRecord_find(b), LAMBDA e :
        IF ~e.ok THEN Parsed(e, <<"eocdr">>)
        ELSE IF MultiDisk(e.val.record) THEN Parsed(Err("Unsupported"), <<"eocdr">>)
        ELSE Parsed(Ok([eocdr |-> e.val.record]), <<"eocdr">>))

\* Zip64Archive::parse from the Zip64 EOCD Locator on: the locator is
\* decoded, its offset followed (&buf[zip64_eocdr_offset..] panics when the
\* offset is past the end of the buffer) and the Zip64 EOCD Record decoded.
Zip64Archive_chain(b, e, nbits) ==
    Bind(Zip64EocdLocator_find(b, e.offset), LAMBDA l :
        IF ~l.ok THEN Parsed(l, <<"eocdr", "zip64_eocdl">>)
        ELSE Bind(map_err(try_into_usize(l.val.offset, nbits), "TODO"), LAMBDA off :
            IF ~off.ok THEN Parsed(off, <<"eocdr", "zip64_eocdl">>)
            ELSE IF BigGtInt(off.val, BufLen(b))
            THEN Parsed(Err("panic"), <<"eocdr", "zip64_eocdl">>)
            ELSE Bind(Zip64EocdRecord_parse(b, Slice(BigToInt(off.val), BufLen(b)), nbits),
                      LAMBDA z :
                IF ~z.ok THEN Parsed(z, <<"eocdr", "zip64_eocdl", "zip64_eocdr">>)
                ELSE Parsed(Ok([eocdr |-> e.record, zip64_eocdr |-> z.val.out]),
                            <<"eocdr", "zip64_eocdl", "zip64_eocdr">>))))

\* Zip64Archive::parse with the single-disk test made after the Zip64
\* structures have been decoded.
Zip64Archive_parse_late(b, nbits) ==
    Bind(EocdRecord_find(b), LAMBDA e :
        IF ~e.ok THEN Parsed(e, <<"eocdr">>)
        ELSE Bind(Zip64Archive_chain(b, e.val, nbits), LAMBDA c :
            IF ~c.res.ok THEN c
            ELSE IF MultiDisk(e.val.record) THEN Parsed(Err("Unsupported"), c.looked)
            ELSE c))

\* Zip64Archive::parse
Zip64Archive_parse(b, nbits) ==
    Bind(EocdRecord_find(b), LAMBDA e :
        IF ~e.ok THEN Parsed(e, <<"eocdr">>)
        ELSE IF MultiDisk(e.val.record) THEN Parsed(Err("Unsupported"), <<"eocdr">>)
        ELSE Zip64Archive_chain(b, e.val, nbits))

\* ZipArchive::entries: the iterator state (buf, count).
ZipArchive_entries(b, a, nbits) ==
    Try(map_err(try_into_usize(a.eocdr.cd_offset, nbits), "OffsetOverflow"), LAMBDA offset :
    Try(ok_or(get_from(b, offset), "OffsetOverflow"), LAMBDA buf_ :
        Ok([buf |-> buf_, count |-> BigFromInt(a.eocdr.cd_entries)])))

\* Zip64Archive::entries reading the plain EOCD record's 16-bit count and
\* 32-bit offset.
Zip64Archive_entries_narrow(b, a, nbits) ==
    Try(map_err(try_into_usize(a.eocdr.cd_offset, nbits), "OffsetOverflow"), LAMBDA offset :
    Try(ok_or(get_from(b, offset), "OffsetOverflow"), LAMBDA buf_ :
        Ok([buf |-> buf_, count |-> BigFromInt(a.eocdr.cd_entries)])))

\* Zip64Archive::entries
Zip64Archive_entries(b, a, nbits) ==
    Try(map_err(try_into_usize(a.zip64_eocdr.cd_offset, nbits), "OffsetOverflow"), LAMBDA offset :
    Try(ok_or(get_from(b, offset), "OffsetOverflow"), LAMBDA buf_ :
        Ok([buf |-> buf_, count |-> a.zip64_eocdr.cd_entries])))

\* ZipArchive::read sizing the payload by the Local File Header.
ZipArchive_read_lfh_size(b, cfh, nbits) ==
    Try(map_err(try_into_usize(cfh.lfh_offset, nbits), "OffsetOverflow"), LAMBDA offset :
    Try(ok_or(get_from(b, offset), "OffsetOverflow"), LAMBDA buf_ :
    Try(LocalFileHeader_parse(b, buf_), LAMBDA l :
    Try(map_err(try_into_usize(l.out.comp_size, nbits), "OffsetOverflow"), LAMBDA size :
    Try(take_big(l.rest, size), LAMBDA t :
        Ok([lfh |-> l.out, buf |-> t.out]))))))

\* ZipArchive::read: (lfh, payload slice)
ZipArchive_read(b, cfh, nbits) ==
    Try(map_err(try_into_usize(cfh.lfh_offset, nbits), "OffsetOverflow"), LAMBDA offset :
    Try(ok_or(get_from(b, offset), "OffsetOverflow"), LAMBDA buf_ :
    Try(LocalFileHeader_parse(b, buf_), LAMBDA l :
    Try(map_err(try_into_usize(cfh.comp_size, nbits), "OffsetOverflow"), LAMBDA size :
    Try(take_big(l.rest, size), LAMBDA t :
        Ok([lfh |-> l.out, buf |-> t.out]))))))

\* Zip64Archive::read
Zip64Archive_read(b, cfh, nbits) ==
    Try(map_err(try_into_usize(cfh.lfh_offset, nbits), "OffsetOverflow"), LAMBDA offset :
    Try(ok_or(get_from(b, offset), "OffsetOverflow"), LAMBDA buf_ :
    Try(LocalFileHeader_parse(b, buf_), LAMBDA l :
    Try(map_err(try_into_usize(cfh.comp_size, nbits), "OffsetOverflow"), LAMBDA size :
    Try(take_big(l.rest, size), LAMBDA t :
        Ok([lfh |-> l.out, buf |-> t.out]))))))

\* The item next() returns, and the iterator state it leaves behind.
Step(item, self) == [item |-> item, self |-> self]

\* ZipEntries::next without `self.count = new_count`.
ZipEntries_next_stale(b, self) ==
    Bind(checked_sub(self.count, 1), LAMBDA new_count :
        IF ~new_count.some THEN Step(None, self)
        ELSE Bind(CentralFileHeader_parse(b, self.buf), LAMBDA r :
            IF ~r.ok THEN Step(Some(r), self)
            ELSE Step(Some(Ok(r.val.out)), [buf |-> r.val.rest, count |-> self.count])))

\* ZipEntries::next
ZipEntries_next(b, self) ==
    Bind(checked_sub(self.count, 1), LAMBDA new_count :
        IF ~new_count.some THEN Step(None, self)
        ELSE Bind(CentralFileHeader_parse(b, self.buf), LAMBDA r :
            IF ~r.ok THEN Step(Some(r), self)
            ELSE Step(Some(Ok(r.val.out)), [buf |-> r.val.rest, count |-> new_count.val])))

\* Zip64Entries::next
Zip64Entries_next(b, self) ==
    Bind(checked_sub(self.count, 1), LAMBDA new_count :
        IF ~new_count.some THEN Step(None, self)
        ELSE Bind(CentralFileHeader_parse(b, self.buf), LAMBDA r :
            IF ~r.ok THEN Step(Some(r), self)
            ELSE Step(Some(Ok(r.val.out)), [buf |-> r.val.rest, count |-> new_count.val])))


(* ------------------------------- inputs ------------------------------- *)
(* The buffers the operations are run on: archives laid out as the        *)
(* decoders above expect them, and the same archives with one structure   *)
(* damaged.                                                               *)

LE16(n) == <<n % 256, n \div 256>>
LE32(n) == LE16(n % Limb) \o LE16(n \div Limb)
LE64(n) == LE32(n) \o <<0, 0, 0, 0>>

\* "CIK0000000001.json"
MatchingName == <<67, 73, 75, 48, 48, 48, 48, 48, 48, 48, 48, 48, 49, 46, 106, 115, 111, 110>>
\* "a"
OtherName == <<97>>

\* The entries archives are generated from: stored and deflated payloads.
Kinds ==
    { [name |-> MatchingName, method |-> STORE, data |-> <<11, 12>>, uncomp |-> 2],
      [name |-> MatchingName, method |-> DEFLATE, data |-> <<13>>, uncomp |-> 2] }

LfhBytes(e) ==
    LFH_SIGNATURE \o LE16(20) \o LE16(0) \o LE16(e.method) \o LE16(0) \o LE16(0)
    \o LE32(1) \o LE32(Len(e.data)) \o LE32(e.uncomp)
    \o LE16(Len(e.name)) \o LE16(0) \o e.name

CfhBytes(e, lfh_offset) ==
    CFH_SIGNATURE \o LE16(20) \o LE16(20) \o LE16(0) \o LE16(e.method) \o LE16(0) \o LE16(0)
    \o LE32(1) \o LE32(Len(e.data)) \o LE32(e.uncomp)
    \o LE16(Len(e.name)) \o LE16(0) \o LE16(0) \o LE16(0) \o LE16(0) \o LE32(0)
    \o LE32(lfh_offset) \o e.name

Zip64EocdrBytes(n, cd_size, cd_offset) ==
    ZIP64_EOCDR_SIGNATURE \o LE64(SIZE_OF_FIXED_FIELDS) \o LE16(45) \o LE16(45)
    \o LE32(0) \o LE32(0) \o LE64(n) \o LE64(n) \o LE64(cd_size) \o LE64(cd_offset)

Zip64EocdlBytes(offset) ==
    ZIP64_EOCDL_SIGNATURE \o LE32(0) \o LE64(offset) \o LE32(1)

EocdrBytes(n, cd_size, cd_offset, comment) ==
    EOCDR_SIGNATURE \o LE16(0) \o LE16(0) \o LE16(n) \o LE16(n)
    \o LE32(cd_size) \o LE32(cd_offset) \o LE16(Len(comment)) \o comment

LfhSize(e) == 30 + Len(e.name) + Len(e.data)
CfhSize(e) == 46 + Len(e.name)

RECURSIVE LfhOff(_, _)
\* Offset of the i-th Local File Header (i = Len(ents) + 1: of what follows).
LfhOff(ents, i) == IF i <= 1 THEN 0 ELSE LfhOff(ents, i - 1) + LfhSize(ents[i - 1])

CdOff(ents) == LfhOff(ents, Len(ents) + 1)

RECURSIVE CfhOff(_, _)
CfhOff(ents, i) == IF i <= 1 THEN CdOff(ents) ELSE CfhOff(ents, i - 1) + CfhSize(ents[i - 1])

CdEnd(ents) == CfhOff(ents, Len(ents) + 1)

\* Offsets of the trailing structures; without the Zip64 structures the
\* EOCD record follows the central directory.
Zip64Off(d) == CdEnd(d.ents)
EocdlOff(d) == Zip64Off(d) + 56
EocdrOff(d) == IF d.zip64 THEN EocdlOff(d) + LOCATOR_LENGTH ELSE CdEnd(d.ents)
BodyLen(d) == EocdrOff(d) + 22 + Len(d.comment)

RECURSIVE Concat(_)
Concat(ss) == IF ss = <<>> THEN <<>> ELSE Head(ss) \o Concat(Tail(ss))

Layout(d) ==
    LET n == Len(d.ents)
        cd_size == CdEnd(d.ents) - CdOff(d.ents)
    IN  Concat([i \in 1..n |-> LfhBytes(d.ents[i]) \o d.ents[i].data])
        \o Concat([i \in 1..n |-> CfhBytes(d.ents[i], LfhOff(d.ents, i))])
        \o (IF d.zip64
            THEN Zip64EocdrBytes(n, cd_size, CdOff(d.ents)) \o Zip64EocdlBytes(Zip64Off(d))
            ELSE <<>>)
        \o EocdrBytes(n, cd_size, CdOff(d.ents), d.comment)

\* body with the bytes at 0-based offset pos replaced.
Patch(body, pos, bytes) ==
    [k \in 1..Len(body) |->
        IF k - 1 >= pos /\ k - 1 < pos + Len(bytes) THEN bytes[k - pos] ELSE body[k]]

FF4 == <<255, 255, 255, 255>>
FF8 == FF4 \o FF4

\* The damage a tweak does: the patches (pos, bytes) it applies to d's layout.
TweakPatches(d, t) ==
    LET eo == EocdrOff(d)
        zo == Zip64Off(d)
        lo == EocdlOff(d)
        c == CfhOff(d.ents, t.idx)
        l == LfhOff(d.ents, t.idx)
        len == BodyLen(d) + d.post
    IN  CASE t.tag = "none" -> <<>>
          [] t.tag = "eocdr_disk_nbr" -> << <<eo + 4, LE16(1)>> >>
          [] t.tag = "eocdr_cd_start_disk" -> << <<eo + 6, LE16(1)>> >>
          [] t.tag = "eocdr_disk_cd_entries" -> << <<eo + 8, LE16(7)>> >>
          [] t.tag = "eocdr_more_entries" -> << <<eo + 8, LE16(9) \o LE16(9)>> >>
          [] t.tag = "eocdr_sentinels" -> << <<eo + 8, FF4>>, <<eo + 16, FF4>> >>
          [] t.tag = "eocdr_cd_offset_past" -> << <<eo + 16, LE32(len + 1)>> >>
          [] t.tag = "eocdr_cd_offset_end" -> << <<eo + 8, LE16(1) \o LE16(1)>>,
                                                 <<eo + 16, LE32(len)>> >>
          [] t.tag = "eocdr_magic" -> << <<eo, <<80, 75, 5, 7>> >> >>
          [] t.tag = "eocdr_comment_len" -> << <<eo + 20, LE16(Len(d.comment) + 1)>> >>
          [] t.tag = "zip64_entries_wide" ->
                << <<zo + 24, LE32(65537) \o <<0, 0, 0, 0>> \o LE32(65537)>> >>
          [] t.tag = "zip64_entries_huge" ->
                << <<zo + 24, <<0, 0, 0, 0, 1, 0, 0, 0, 0, 0, 0, 0, 1, 0, 0, 0>> >> >>
          [] t.tag = "zip64_cd_offset_huge" -> << <<zo + 48, FF8>> >>
          [] t.tag = "zip64_cd_offset_wide" -> << <<zo + 48, <<0, 0, 0, 0, 1, 0, 0, 0>> >> >>
          [] t.tag = "zip64_cd_offset_past" -> << <<zo + 48, LE32(len + 1)>> >>
          [] t.tag = "zip64_cd_offset_next" ->
                << <<zo + 48, LE32(CfhOff(d.ents, Min2(2, Len(d.ents) + 1)))>>, <<zo + 24, LE32(1)>>,
                   <<zo + 32, LE32(1)>> >>
          [] t.tag = "zip64_magic" -> << <<zo, <<80, 75, 6, 5>> >> >>
          [] t.tag = "zip64_size_small" -> << <<zo + 4, LE32(43)>> >>
          [] t.tag = "zip64_size_large" -> << <<zo + 4, LE32(45)>> >>
          [] t.tag = "zip64_size_huge" -> << <<zo + 4, FF8>> >>
          [] t.tag = "eocdl_magic" -> << <<lo, <<80, 75, 6, 8>> >> >>
          [] t.tag = "eocdl_offset_past" -> << <<lo + 8, LE32(len + 1)>> >>
          [] t.tag = "eocdl_offset_end" -> << <<lo + 8, LE32(len)>> >>
          [] t.tag = "eocdl_offset_huge" -> << <<lo + 8, FF8>> >>
          [] t.tag = "cfh_magic" -> << <<c, <<80, 75, 1, 3>> >> >>
          [] t.tag = "cfh_comment_len" -> << <<c + 32, <<255, 255>> >> >>
          [] t.tag = "cfh_method_zstd" -> << <<c + 10, LE16(ZSTD)>> >>
          [] t.tag = "cfh_method_other" -> << <<c + 10, LE16(1)>> >>
          [] t.tag = "cfh_name_other" -> << <<c + 46, <<99>> >> >>
          [] t.tag = "cfh_lfh_offset_huge" -> << <<c + 42, FF4>> >>
          [] t.tag = "cfh_lfh_offset_past" -> << <<c + 42, LE32(len + 1)>> >>
          [] t.tag = "cfh_lfh_offset_end" -> << <<c + 42, LE32(len)>> >>
          [] t.tag = "cfh_comp_size_large" -> << <<c + 20, LE32(len)>> >>
          [] t.tag = "cfh_comp_size_huge" -> << <<c + 20, FF4>> >>
          [] t.tag = "cfh_comp_size_small" -> << <<c + 20, LE32(0)>> >>
          [] t.tag = "cfh_uncomp_size_small" -> << <<c + 24, LE32(1)>> >>
          [] t.tag = "lfh_magic" -> << <<l, <<80, 75, 3, 5>> >> >>
          [] t.tag = "lfh_extra_len" -> << <<l + 28, LE16(1)>> >>
          [] t.tag = "lfh_comp_size" -> << <<l + 18, LE32(200)>> >>
          [] t.tag = "lfh_name_len" -> << <<l + 26, <<255, 255>> >> >>

RECURSIVE ApplyPatches(_, _)
ApplyPatches(body, ps) ==
    IF ps = <<>> THEN body
    ELSE ApplyPatches(Patch(body, Head(ps)[1], Head(ps)[2]), Tail(ps))

\* The buffer of descriptor d with tweak t applied.
Build(d, t) == [body |-> ApplyPatches(Layout(d), TweakPatches(d, t)), post |-> d.post]

EocdrTweaks ==
    { "none", "eocdr_disk_nbr", "eocdr_cd_start_disk", "eocdr_disk_cd_entries",
      "eocdr_more_entries", "eocdr_sentinels", "eocdr_cd_offset_past",
      "eocdr_cd_offset_end", "eocdr_magic", "eocdr_comment_len" }

Zip64Tweaks ==
    { "zip64_entries_wide", "zip64_entries_huge", "zip64_cd_offset_huge",
      "zip64_cd_offset_wide", "zip64_cd_offset_past", "zip64_cd_offset_next",
      "zip64_magic", "zip64_size_small", "zip64_size_large", "zip64_size_huge",
      "eocdl_magic", "eocdl_offset_past", "eocdl_offset_end", "eocdl_offset_huge" }

EntryTweaks ==
    { "cfh_magic", "cfh_comment_len", "cfh_method_zstd", "cfh_method_other",
      "cfh_name_other", "cfh_lfh_offset_huge", "cfh_lfh_offset_past",
      "cfh_lfh_offset_end", "cfh_comp_size_large", "cfh_comp_size_huge",
      "cfh_comp_size_small", "cfh_uncomp_size_small", "lfh_magic", "lfh_extra_len",
      "lfh_comp_size", "lfh_name_len" }

RECURSIVE SeqsUpTo(_, _)
\* The sequences over S of length at most n.
SeqsUpTo(S, n) ==
    IF n = 0 THEN { <<>> }
    ELSE LET shorter == SeqsUpTo(S, n - 1)
         IN  shorter \cup { Append(q, x) : q \in shorter, x \in S }

Archives == SeqsUpTo(Kinds, MaxEntries)

\* An EOCD comment that holds the EOCD magic, followed by enough zero
\* bytes for a whole record to be decoded at the magic.
MagicComment == <<7>> \o EOCDR_SIGNATURE \o [k \in 1..19 |-> 0]
\* An EOCD comment that ends with the EOCD magic.
MagicTail == <<7>> \o EOCDR_SIGNATURE

Desc(ents, zip64, comment, post) ==
    [ents |-> ents, zip64 |-> zip64, comment |-> comment, post |-> post]

\* Trailing zero bytes that put the start of the scan window of
\* find_sig_offset within WindowSlack bytes of the EOCD signature.
WindowPosts(d) ==
    { MAX_BACK_OFFSET - BodyLen(d) + EocdrOff(d) + delta : delta \in (0 - WindowSlack)..WindowSlack }

Buffers ==
    { Build(Desc(a, TRUE, <<>>, 0), [tag |-> "none", idx |-> 1]) : a \in Archives }
    \cup { Build(Desc(a, TRUE, <<>>, 0), [tag |-> t, idx |-> 1]) :
          a \in SeqsUpTo(Kinds, 1), t \in EocdrTweaks \cup Zip64Tweaks }
    \cup { Build(Desc(a, TRUE, <<>>, 0), [tag |-> t, idx |-> Len(a)]) :
          a \in Archives \ { <<>> }, t \in EntryTweaks }
    \cup { Build(Desc(a, TRUE, <<>>, 0), [tag |-> t, idx |-> 1]) :
          a \in Archives \ { <<>> }, t \in EntryTweaks }
    \cup { Build(Desc(a, z, c, 0), [tag |-> "none", idx |-> 1]) :
          a \in SeqsUpTo(Kinds, 1), z \in BOOLEAN, c \in { <<>>, <<7>>, MagicComment, MagicTail } }
    \cup UNION { { Build(Desc(<<>>, FALSE, c, p), [tag |-> "none", idx |-> 1]) :
                        p \in WindowPosts(Desc(<<>>, FALSE, c, 0)) } :
                    c \in { <<>>, MagicTail } }

(* --------------------------- Decode Pipeline -------------------------- *)

\* Regex ^CIK\d{10}.json$ on a name of ASCII bytes.
RE_is_match(name) ==
    /\ Len(name) = 18
    /\ SubSeq(name, 1, 3) = <<67, 73, 75>>
    /\ \A k \in 4..13 : name[k] >= 48 /\ name[k] <= 57
    /\ name[14] # 10
    /\ SubSeq(name, 15, 18) = <<106, 115, 111, 110>>

\* What the decompressor chosen by method can still deliver: avail bytes,
\* then end of stream or (fails) a read error.  The stored method reads
\* the payload slice itself; what a DEFLATE or Zstandard stream inflates
\* to is decided by its bytes, not by any header.
Sources(method, payload_len) ==
    IF method = STORE THEN { [avail |-> payload_len, fails |-> FALSE] }
    ELSE { [avail |-> n, fails |-> f] : n \in 0..MaxProduce, f \in BOOLEAN }

\* Decoder::read (DeflateDecoder, ZstdDecoder or the slice): up to want bytes.
Decoder_read(src, want) ==
    IF src.avail > 0 THEN Ok(Min2(want, src.avail))
    ELSE IF src.fails THEN Err("io") ELSE Ok(0)

\* The decoder read without the cap.
Take_read_uncapped(src, limit, want) ==
    [res |-> Decoder_read(src, want), limit |-> limit]

\* std::io::Take::read with limit bytes left (reader.take(uncomp_size)):
\* what the read returns, and the limit left after it.
Take_read(src, limit, want) ==
    IF limit = <<>> THEN [res |-> Ok(0), limit |-> limit]
    ELSE Bind(Decoder_read(src, IF BigGtInt(limit, want) THEN want ELSE BigToInt(limit)),
              LAMBDA r : [res |-> r,
                          limit |-> IF r.ok THEN BigNorm(BigBorrow(limit, r.val)) ELSE limit])

\* Crc32Checker::read: passes the bytes on; at the end of the stream the
\* accumulated checksum must equal the expected one.
Crc32Checker_read(src, limit, want, crc_ok) ==
    Bind(Take_read(src, limit, want), LAMBDA t :
        [res |-> IF t.res.ok /\ t.res.val = 0 /\ ~crc_ok THEN Err("crc") ELSE t.res,
         limit |-> t.limit])

RECURSIVE read_to_end(_, _, _, _)
\* Read::read_to_end into data: the bytes delivered, and whether it failed.
read_to_end(src, limit, crc_ok, delivered) ==
    Bind(Crc32Checker_read(src, limit, ReadChunk, crc_ok), LAMBDA t :
        IF ~t.res.ok THEN [ok |-> FALSE, delivered |-> delivered]
        ELSE IF t.res.val = 0 THEN [ok |-> TRUE, delivered |-> delivered]
        ELSE Bind([src |-> [src EXCEPT !.avail = @ - t.res.val],
                   delivered |-> delivered + t.res.val],
                  LAMBDA n : read_to_end(n.src, t.limit, crc_ok, n.delivered)))

NoDecode == [ran |-> FALSE]

Outcome(kind, msg, decode) == [kind |-> kind, msg |-> msg, decode |-> decode]

\* The decode pipeline of the closure of unzip, lines 190-211: the outcomes
\* it can have for a Central File Header and its payload slice.
Decode(cfh, payload) ==
    IF cfh.method \notin { STORE, DEFLATE, ZSTD }
    THEN { Outcome("panic", "idk", NoDecode) }
    ELSE (IF cfh.method = ZSTD
          THEN { Outcome("panic", "couldn't create zstd decoder", NoDecode) }
          ELSE {})
         \cup
         { Bind(read_to_end(src, cfh.uncomp_size, crc_ok, 0), LAMBDA d :
               Bind([ran |-> TRUE, method |-> cfh.method, uncomp_size |-> cfh.uncomp_size,
                     avail |-> src.avail, delivered |-> d.delivered], LAMBDA dec :
                   IF ~d.ok THEN Outcome("panic", "read error", dec)
                   ELSE IF json_ok THEN Outcome("return", "parsed", dec)
                   ELSE Outcome("return", "json", dec))) :
             src \in Sources(cfh.method, SliceLen(payload)),
             crc_ok \in BOOLEAN, json_ok \in BOOLEAN }

\* The closure of unzip run on one item of the iterator: the outcomes it
\* can have.  kind "panic" is an expect()/panic!() that unwinds the worker.
ProcessItem(b, item, nbits) ==
    IF ~item.ok THEN { Outcome("panic", "didn't get a cfh", NoDecode) }
    ELSE Bind(Zip64Archive_read(b, item.val, nbits), LAMBDA r :
        IF ~r.ok THEN { Outcome("panic", "couldn't read", NoDecode) }
        ELSE IF ~RE_is_match(Bytes(b, item.val.name))
        THEN { Outcome("return", "name", NoDecode) }
        ELSE Decode(item.val, r.val.buf))

(* ---------------------------- state machine --------------------------- *)

VARIABLES
    buf,        \* the backing buffer (the mapped file)
    bits,       \* width of usize on the platform: 32 or 64
    mode,       \* "start", then "find", "api" (library calls) or "unzip" (the driver)
    sig,        \* result of EocdRecord::find_sig_offset
    eocd,       \* result of EocdRecord::find
    archive,    \* result of ZipArchive::parse / Zip64Archive::parse
    it,         \* result of entries(): the iterator state
    calls,      \* the calls of next() made so far: state before, item, state after
    rd,         \* result of read() for the last item next() returned
    uz,         \* the driver: "idle", "running", "err", "panicked", "returned"
    workers,    \* the pool: workers still taking items, and whether one has unwound
    outcomes,   \* per item taken by a worker, in iterator order: where it was
                \* read and whether the closure returned or panicked
    last,       \* the closure's run on the last item taken: its message and
                \* what the decode pipeline did
    z64         \* Zip64EocdRecord::parse called on a slice: the slice, the result

vars == <<buf, bits, mode, sig, eocd, archive, it, calls, rd, uz, workers, outcomes, last,
         z64>>

Unset == [set |-> FALSE]

Init ==
    /\ buf \in Buffers
    /\ bits \in {32, 64}
    /\ mode = "start"
    /\ sig = Unset
    /\ eocd = Unset
    /\ archive = Unset
    /\ it = Unset
    /\ calls = <<>>
    /\ rd = Unset
    /\ uz = "idle"
    /\ workers = [running |-> NumWorkers, panicked |-> FALSE]
    /\ outcomes = <<>>
    /\ last = [msg |-> "", decode |-> NoDecode]
    /\ z64 = Unset

\* EocdRecord::find_sig_offset(buf)
FindSigOffset ==
    /\ mode = "start"
    /\ mode' = "find"
    /\ sig' = [set |-> TRUE, res |-> find_sig_offset(buf)]
    /\ UNCHANGED <<buf, bits, eocd, archive, it, calls, rd, uz, workers, outcomes, last, z64>>

\* EocdRecord::find(buf)
Find ==
    /\ mode = "start"
    /\ mode' = "find"
    /\ eocd' = [set |-> TRUE, res |-> EocdRecord_find(buf)]
    /\ UNCHANGED <<buf, bits, sig, archive, it, calls, rd, uz, workers, outcomes, last, z64>>

\* The slices of the buffer a caller hands to Zip64EocdRecord::parse: they
\* start at a Zip64 EOCD Record magic and end inside the magic-and-size
\* prefix, around the end of the fixed fields, or at the end of the buffer.
RecordInputs(b) ==
    UNION { { Slice(lo, hi) :
                hi \in { h \in { lo + 4, lo + 12, lo + 55, lo + 56, lo + 57, BufLen(b) } :
                           lo + 4 <= h /\ h <= BufLen(b) } } :
            lo \in Occurrences(b, Slice(0, BufLen(b)), ZIP64_EOCDR_SIGNATURE) }

\* Zip64EocdRecord::parse(&buf[lo..hi])
ParseZip64Eocdr ==
    /\ mode = "start"
    /\ mode' = "find"
    /\ \E input \in RecordInputs(buf) :
           z64' = [set |-> TRUE, input |-> input,
                   res |-> Zip64EocdRecord_parse(buf, input, bits)]
    /\ UNCHANGED <<buf, bits, sig, eocd, archive, it, calls, rd, uz, workers, outcomes, last>>

\* ZipArchive::parse(buf)
ParseZip ==
    /\ mode = "start"
    /\ mode' = "api"
    /\ archive' = [set |-> TRUE, kind |-> "zip"] @@ ZipArchive_parse(buf)
    /\ UNCHANGED <<buf, bits, sig, eocd, it, calls, rd, uz, workers, outcomes, last, z64>>

\* Zip64Archive::parse(buf)
ParseZip64 ==
    /\ mode = "start"
    /\ mode' = "api"
    /\ archive' = [set |-> TRUE, kind |-> "zip64"] @@ Zip64Archive_parse(buf, bits)
    /\ UNCHANGED <<buf, bits, sig, eocd, it, calls, rd, uz, workers, outcomes, last, z64>>

\* archive.entries()
Entries ==
    /\ mode = "api"
    /\ archive.res.ok
    /\ ~it.set
    /\ it' = [set |-> TRUE,
              res |-> IF archive.kind = "zip"
                      THEN ZipArchive_entries(buf, archive.res.val, bits)
                      ELSE Zip64Archive_entries(buf, archive.res.val, bits)]
    /\ UNCHANGED <<buf, bits, mode, sig, eocd, archive, calls, rd, uz, workers, outcomes, last, z64>>

\* entries.next()
Next_ ==
    /\ mode = "api"
    /\ it.set
    /\ it.res.ok
    /\ Len(calls) < MaxNext
    /\ \E r \in { IF archive.kind = "zip" THEN ZipEntries_next(buf, it.res.val)
                 ELSE Zip64Entries_next(buf, it.res.val) } :
           /\ calls' = Append(calls, [before |-> it.res.val, item |-> r.item, after |-> r.self])
           /\ it' = [it EXCEPT !.res = Ok(r.self)]
    /\ rd' = Unset
    /\ UNCHANGED <<buf, bits, mode, sig, eocd, archive, uz, workers, outcomes, last, z64>>

\* archive.read(&cfh) for the Central File Header the last next() returned
Read ==
    /\ mode = "api"
    /\ calls # <<>>
    /\ ~rd.set
    /\ \E item \in { calls[Len(calls)].item } :
           /\ item.some
           /\ item.val.ok
           /\ rd' = [set |-> TRUE, cfh |-> item.val.val,
                     res |-> IF archive.kind = "zip"
                             THEN ZipArchive_read(buf, item.val.val, bits)
                             ELSE Zip64Archive_read(buf, item.val.val, bits)]
    /\ UNCHANGED <<buf, bits, mode, sig, eocd, archive, it, calls, uz, workers, outcomes, last, z64>>

\* unzip up to the par_bridge: Zip64Archive::parse(&buf)? and zip.entries()?
UnzipOpen ==
    /\ mode = "start"
    /\ mode' = "unzip"
    /\ \E a \in { Zip64Archive_parse(buf, bits) } :
           /\ archive' = [set |-> TRUE, kind |-> "zip64"] @@ a
           /\ IF ~a.res.ok
              THEN /\ uz' = IF a.res.err = "panic" THEN "panicked" ELSE "err"
                   /\ it' = it
              ELSE \E e \in { Zip64Archive_entries(buf, a.res.val, bits) } :
                   /\ it' = [set |-> TRUE, res |-> e]
                   /\ uz' = IF e.ok THEN "running" ELSE "err"
    /\ UNCHANGED <<buf, bits, sig, eocd, calls, rd, workers, outcomes, last, z64>>

\* A worker of the pool takes the next item from the shared iterator and
\* runs the for_each closure on it.  A worker that finds the iterator
\* exhausted stops; one whose closure panics unwinds.
Worker ==
    /\ uz = "running"
    /\ workers.running > 0
    /\ \E r \in { Zip64Entries_next(buf, it.res.val) } :
           /\ it' = [it EXCEPT !.res = Ok(r.self)]
           /\ IF ~r.item.some
              THEN /\ workers' = [workers EXCEPT !.running = @ - 1]
                   /\ UNCHANGED <<outcomes, last>>
              ELSE \E o \in ProcessItem(buf, r.item.val, bits) :
                     /\ outcomes' = Append(outcomes, [at |-> it.res.val.buf.lo, kind |-> o.kind])
                     /\ last' = [msg |-> o.msg, decode |-> o.decode]
                     /\ workers' = IF o.kind = "panic"
                                   THEN [running |-> workers.running - 1, panicked |-> TRUE]
                                   ELSE workers
    /\ UNCHANGED <<buf, bits, mode, sig, eocd, archive, calls, rd, uz, z64>>

\* for_each returns once every worker has run out of items or has unwound;
\* a worker's panic is resumed on the calling thread.
UnzipJoin ==
    /\ uz = "running"
    /\ workers.running = 0
    /\ uz' = IF workers.panicked THEN "panicked" ELSE "returned"
    /\ UNCHANGED <<buf, bits, mode, sig, eocd, archive, it, calls, rd, workers, outcomes, last, z64>>

Next ==
    \/ FindSigOffset
    \/ Find
    \/ ParseZip64Eocdr
    \/ ParseZip
    \/ ParseZip64
    \/ Entries
    \/ Next_
    \/ Read
    \/ UnzipOpen
    \/ Worker
    \/ UnzipJoin

Spec == Init /\ [][Next]_vars

(* ----------------------------- properties ----------------------------- *)

\* The Central File Header layout on disk, read from the bytes: a record
\* of the central directory at offset p that lies inside [p, hi).
U16At(b, p) == At(b, p) + 256 * At(b, p + 1)
CfhEnd(b, p) == p + 46 + U16At(b, p + 28) + U16At(b, p + 30) + U16At(b, p + 32)
CfhAt(b, p, hi) ==
    /\ p + 46 <= hi
    /\ \A k \in 1..4 : At(b, p + k - 1) = CFH_SIGNATURE[k]
    /\ CfhEnd(b, p) <= hi

RECURSIVE DiskRecords(_, _, _, _)
\* The start offsets of the (at most n) consecutive well-formed records
\* from offset p on.
DiskRecords(b, p, hi, n) ==
    IF n = 0 \/ ~CfhAt(b, p, hi) THEN <<>>
    ELSE <<p>> \o DiskRecords(b, CfhEnd(b, p), hi, n - 1)

\* The iterator as entries() returned it, when next() has been called.
FirstState == calls[1].before

\* The central directory holds N = count well-formed records.
WellFormedDirectory ==
    /\ BigFits(FirstState.count)
    /\ BigToInt(FirstState.count) <= MaxNext
    /\ Len(DiskRecords(buf, FirstState.buf.lo, FirstState.buf.hi, BigToInt(FirstState.count)))
         = BigToInt(FirstState.count)

\* C1: with N well-formed Central File Headers and an entry count of N,
\* the first N calls of next() return Ok, the j-th one the j-th record on
\* disk, starting where the previous one ended, and every later call
\* returns None.
C1_ExactlyN ==
    (mode = "api" /\ calls # <<>> /\ WellFormedDirectory) =>
        LET n == BigToInt(FirstState.count)
            recs == DiskRecords(buf, FirstState.buf.lo, FirstState.buf.hi, n)
        IN  \A j \in 1..Len(calls) :
                IF j <= n
                THEN /\ calls[j].item.some
                     /\ calls[j].item.val.ok
                     /\ calls[j].before.buf.lo = recs[j]
                     /\ calls[j].after.buf.lo = CfhEnd(buf, recs[j])
                     /\ calls[j].item.val.val.name
                          = Slice(recs[j] + 46, recs[j] + 46 + U16At(buf, recs[j] + 28))
                     /\ (j > 1 => calls[j].before = calls[j - 1].after)
                ELSE ~calls[j].item.some

C1_Witness ==
    /\ mode = "api"
    /\ Len(calls) = 3
    /\ WellFormedDirectory
    /\ FirstState.count = <<2>>
    /\ calls[2].item.some
    /\ ~calls[3].item.some

\* C2: once next() has returned a decode failure, every later call of
\* next() returns None.
C2_FailureIsFinal ==
    \A j \in 1..Len(calls) : \A k \in 1..Len(calls) :
        (j < k /\ calls[j].item.some /\ ~calls[j].item.val.ok) => ~calls[k].item.some

\* C3: when the located EOCD record is multi-disk, parse fails with
\* Unsupported and has decoded nothing but the EOCD record (stated of the
\* archive as parse returned it, before entries() is called on it).
C3_MultiDiskRejected ==
    (archive.set /\ ~it.set) =>
        \A e \in { EocdRecord_find(buf) } :
            (/\ e.ok
             /\ \/ e.val.record.disk_nbr # 0
                \/ e.val.record.cd_start_disk # 0
                \/ e.val.record.disk_cd_entries # e.val.record.cd_entries)
            => /\ archive.res = Err("Unsupported")
               /\ archive.looked = <<"eocdr">>

C3_Witness ==
    /\ archive.set
    /\ archive.kind = "zip64"
    /\ archive.res = Err("Unsupported")
    /\ \E e \in { EocdRecord_find(buf) } :
           e.ok /\ e.val.record.disk_nbr = 0 /\ e.val.record.cd_start_disk = 0

\* The EOCD magic occurs at offset o of the buffer.
SigAt(b, o) ==
    /\ o + 4 <= BufLen(b)
    /\ \A k \in 1..4 : At(b, o + k - 1) = EOCDR_SIGNATURE[k]

\* Every offset at which the EOCD magic occurs (its first byte is not zero).
SigOffsets(b) == { o \in 0..(Len(b.body) - 1) : SigAt(b, o) }

\* max(0, len - 131072)
WindowStart(b) == Max2(0, BufLen(b) - 2^17)

\* C4: find_sig_offset returns the greatest offset >= max(0, len - 131072)
\* at which the magic occurs, and fails with BadEocdr exactly when there is
\* no such offset.
C4_LastInWindow ==
    sig.set =>
        LET inwin == { o \in SigOffsets(buf) : o >= WindowStart(buf) }
        IN  IF inwin = {} THEN sig.res = Err("BadEocdr")
            ELSE /\ sig.res.ok
                 /\ sig.res.val \in inwin
                 /\ \A o \in inwin : o <= sig.res.val

C4_Witness ==
    /\ sig.set
    /\ sig.res = Err("BadEocdr")
    /\ \E o \in SigOffsets(buf) : o < WindowStart(buf) /\ o + 4 > WindowStart(buf)

\* The EOCD records whose comment runs to the end of the buffer.
TrueEocdrs(b) ==
    { o \in SigOffsets(b) : o + 22 <= BufLen(b) /\ o + 22 + U16At(b, o + 20) = BufLen(b) }

\* C5: when the true EOCD record lies in the scan window and its comment
\* holds the EOCD magic, find returns the true record's offset and fields.
C5_TrueEocdrFound ==
    eocd.set =>
        \A o \in TrueEocdrs(buf) :
            (/\ o >= WindowStart(buf)
             /\ \E m \in SigOffsets(buf) : m >= o + 22)
            => /\ eocd.res.ok
               /\ eocd.res.val.offset = o
               /\ eocd.res.val.record.cd_entries = U16At(buf, o + 10)
               /\ eocd.res.val.record.comment = Slice(o + 22, BufLen(buf))

\* The Local File Header layout on disk, read from the bytes.
LfhEnd(b, p) == p + 30 + U16At(b, p + 26) + U16At(b, p + 28)
LfhAt(b, p) ==
    /\ p + 30 <= BufLen(b)
    /\ \A k \in 1..4 : At(b, p + k - 1) = LFH_SIGNATURE[k]
    /\ LfhEnd(b, p) <= BufLen(b)

\* C6: when the Local File Header at cfh.lfh_offset decodes, read returns
\* the cfh.comp_size bytes that follow it, or Eof when fewer remain.
C6_PayloadSlice ==
    (rd.set /\ ~BigGtInt(rd.cfh.lfh_offset, BufLen(buf))
            /\ LfhAt(buf, BigToInt(rd.cfh.lfh_offset))) =>
        LET start == LfhEnd(buf, BigToInt(rd.cfh.lfh_offset))
        IN  IF BigGtInt(rd.cfh.comp_size, BufLen(buf) - start)
            THEN rd.res = Err("Eof")
            ELSE /\ rd.res.ok
                 /\ rd.res.val.buf = Slice(start, start + BigToInt(rd.cfh.comp_size))

C6_Witness ==
    /\ rd.set
    /\ rd.res.ok
    /\ rd.res.val.lfh.comp_size # rd.cfh.comp_size
    /\ SliceLen(rd.res.val.buf) = BigToInt(rd.cfh.comp_size)
    /\ SliceLen(rd.res.val.buf) > 0

\* The central-directory offset entries() starts from.
CdOffsetOf(a) ==
    IF a.kind = "zip" THEN a.res.val.eocdr.cd_offset ELSE a.res.val.zip64_eocdr.cd_offset

\* A stored offset that usize cannot hold or that lies past the end.
OutOfRange(offset) == BigBits(offset) > bits \/ BigGtInt(offset, BufLen(buf))

\* C7: read fails with OffsetOverflow when lfh_offset is out of range, and
\* entries() does when the central-directory offset is.
C7_OffsetOverflow ==
    /\ (rd.set /\ OutOfRange(rd.cfh.lfh_offset)) => rd.res = Err("OffsetOverflow")
    /\ (it.set /\ OutOfRange(CdOffsetOf(archive))) => it.res = Err("OffsetOverflow")

C7_Witness ==
    /\ rd.set
    /\ rd.cfh.lfh_offset = <<65535, 65535>>
    /\ rd.res = Err("OffsetOverflow")

\* The iterator is as entries() returned it.
Fresh == it.set /\ calls = <<>> /\ outcomes = <<>>

\* C8: the iterator of a Zip64 archive starts with the Zip64 EOCD Record's
\* 64-bit entry count and at its 64-bit central-directory offset.
C8_WideCount ==
    (Fresh /\ archive.kind = "zip64" /\ it.res.ok) =>
        /\ it.res.val.count = archive.res.val.zip64_eocdr.cd_entries
        /\ it.res.val.buf =
             Slice(BigToInt(archive.res.val.zip64_eocdr.cd_offset), BufLen(buf))

C8_Witness ==
    /\ Fresh
    /\ archive.kind = "zip64"
    /\ it.res.ok
    /\ it.res.val.count = <<1, 1>>
    /\ archive.res.val.eocdr.cd_entries < 65535
    /\ archive.res.val.eocdr.cd_entries # 1

\* The driver is through with the archive.
Finished == uz \in { "returned", "panicked" }

\* C9: a failure while processing one entry is captured as a typed error
\* and every other entry is still processed: no entry's closure ends in a
\* panic, no worker unwinds, and when the driver is through with the
\* iterator every record of the central directory was processed.
C9_FailureIsolation ==
    /\ \A i \in 1..Len(outcomes) : outcomes[i].kind # "panic"
    /\ ~workers.panicked
    /\ (Finished /\ it.set) =>
         LET a == archive.res.val.zip64_eocdr
             first == BigToInt(a.cd_offset)
             n == IF BigFits(a.cd_entries) THEN Min2(BigToInt(a.cd_entries), MaxEntries + 1)
                  ELSE MaxEntries + 1
         IN  \A p \in { DiskRecords(buf, first, BufLen(buf), n)[j] :
                          j \in 1..Len(DiskRecords(buf, first, BufLen(buf), n)) } :
                 \E i \in 1..Len(outcomes) : outcomes[i].at = p

\* C10: the pipeline delivers at most uncomp_size bytes, and exactly
\* uncomp_size when the decompressor can produce that many or more.
C10_Capped ==
    (last.decode.ran /\ BigFits(last.decode.uncomp_size)) =>
        /\ last.decode.delivered <= BigToInt(last.decode.uncomp_size)
        /\ last.decode.avail >= BigToInt(last.decode.uncomp_size)
             => last.decode.delivered = BigToInt(last.decode.uncomp_size)

C10_Witness ==
    /\ last.decode.ran
    /\ last.decode.method = DEFLATE
    /\ last.decode.avail > BigToInt(last.decode.uncomp_size)
    /\ last.decode.delivered = BigToInt(last.decode.uncomp_size)
    /\ last.decode.delivered > 0

\* A 64-bit little-endian value on disk, read from the bytes.
U64At(b, p) ==
    BigNorm(<<U16At(b, p), U16At(b, p + 2), U16At(b, p + 4), U16At(b, p + 6)>>)

\* size - 44 is at least 2^32: it does not fit a 32-bit usize.
ExtraTooWide(size) ==
    /\ Len(size) >= 3
    /\ ~(Len(size) = 3 /\ size[3] = 1 /\ size[2] = 0 /\ size[1] < 44)

\* C11: Zip64EocdRecord::parse on a slice that starts with PK\x06\x06 and
\* holds the size field fails (BadEocdr) when the declared size is below
\* 44 or size - 44 does not fit usize; otherwise it returns the fixed
\* fields and exactly size - 44 bytes of extra_data right after them, or
\* Eof when the slice is shorter than that.
C11_ExtraDataSize ==
    (z64.set /\ SliceLen(z64.input) >= 12) =>
        \A size \in { U64At(buf, z64.input.lo + 4) } :
            IF BigFits(size) /\ BigToInt(size) < 44
            THEN z64.res = Err("BadEocdr")
            ELSE IF bits = 32 /\ ExtraTooWide(size)
            THEN z64.res = Err("BadEocdr")
            ELSE IF /\ BigFits(size)
                    /\ SliceLen(z64.input) >= 56
                    /\ BigToInt(size) - 44 <= SliceLen(z64.input) - 56
            THEN /\ z64.res.ok
                 /\ z64.res.val.out.extra_data =
                        Slice(z64.input.lo + 56, z64.input.lo + 12 + BigToInt(size))
                 /\ z64.res.val.rest = Slice(z64.input.lo + 12 + BigToInt(size), z64.input.hi)
                 /\ z64.res.val.out.cd_entries = U64At(buf, z64.input.lo + 32)
                 /\ z64.res.val.out.cd_offset = U64At(buf, z64.input.lo + 48)
            ELSE z64.res = Err("Eof")

\* A record with one byte of extra data is decoded.
C11_Witness ==
    /\ z64.set
    /\ z64.res.ok
    /\ U64At(buf, z64.input.lo + 4) = <<45>>
    /\ SliceLen(z64.res.val.out.extra_data) = 1

\* The variants of enum Error.
Errors ==
    { "Eof", "BadEocdr", "BadZip64Eocdl", "BadCfh", "BadLfh", "Unsupported",
      "OffsetOverflow", "TODO" }

\* The offset stored in the Zip64 EOCD Locator that ends at offset o.
LocatorOffsetAt(b, o) == U64At(b, o - 12)

\* C12: Zip64Archive::parse returns an archive or a value of Error and
\* never slices outside the buffer; with a single-disk EOCD record less
\* than 20 bytes from the start the result is BadZip64Eocdl, and with a
\* locator whose stored offset is greater than the buffer length the
\* result is a value of Error.
C12_TypedErrors ==
    (archive.set /\ archive.kind = "zip64" /\ ~it.set) =>
        /\ archive.res.ok \/ archive.res.err \in Errors
        /\ \A e \in { EocdRecord_find(buf) } :
               (e.ok /\ ~MultiDisk(e.val.record)) =>
                   /\ e.val.offset < 20 => archive.res = Err("BadZip64Eocdl")
                   /\ (/\ e.val.offset >= 20
                       /\ \A k \in 1..4 :
                              At(buf, e.val.offset - 21 + k) = ZIP64_EOCDL_SIGNATURE[k]
                       /\ BigGtInt(LocatorOffsetAt(buf, e.val.offset), BufLen(buf)))
                      => ~archive.res.ok /\ archive.res.err \in Errors

====
